---- MODULE Spec2Model ----
(***************************************************************************)
(* Model of the paper-trading bot of src/main.py: the global account and   *)
(* risk state, the indicator and scoring functions, and the control loop   *)
(* of main_loop, one action per step of a cycle.                           *)
(*                                                                         *)
(* Number representation (Python Decimal, context precision 28, rounding   *)
(* ROUND_HALF_EVEN):                                                       *)
(*   cash (usd_balance, spend, proceeds)  integer cents                    *)
(*   coin amounts (coin_balance)          integer units of 1e-8 coin       *)
(*   prices                               integer dollars                  *)
(*   equity (unrounded in the code)       a pair [c, f]: c cents plus f    *)
(*                                        units of 1e-8 dollar, 0 <= f <   *)
(*                                        MicroPerCent                     *)
(* Every product and quotient is split into limbs so that no intermediate  *)
(* value leaves 32 bits.  Prices are whole dollars.  Products are exact in *)
(* the code; a quotient is rounded by the code to 28 digits before its     *)
(* quantize() or comparison, which for integers of this size never moves   *)
(* the result across a rounding tie or a threshold, so the integer         *)
(* arithmetic below gives the digits the code gives.                       *)
(*                                                                         *)
(* Spec is the loop with an event sink and a console that accept every     *)
(* row: log and log_event return normally.                                 *)
(***************************************************************************)
EXTENDS Integers, Sequences, FiniteSets, TLC

VARIABLES
    usd_balance,               \* cents
    coin_balance,              \* units of 1e-8 coin
    current_market,            \* a market name, or NoMarket
    entry_price,               \* dollars, or NoPrice
    trade_count,
    losing_streak,
    equity_peak_today,         \* [c, f]
    today_date,                \* day number
    trading_paused_for_today,
    last_price_for_equity,     \* local of main_loop, dollars (0 at start)
    loop_price,                \* `price`, local of main_loop: last fetched
    start_balance,             \* START_BALANCE_USD of this run, cents
    last_event,                \* the last row appended to the trade log
    clock,                     \* the UTC day the system clock shows
    pc,                        \* position of main_loop inside its cycle
    rsi_in,                    \* input of the indicator harness
    rsi_out,                   \* its result
    scan_in,                   \* input of the market-scan harness
    scan_out                   \* its result

vars == <<usd_balance, coin_balance, current_market, entry_price, trade_count,
          losing_streak, equity_peak_today, today_date,
          trading_paused_for_today, last_price_for_equity, loop_price,
          start_balance, last_event, clock, pc, rsi_in, rsi_out,
          scan_in, scan_out>>

botVars == <<usd_balance, coin_balance, current_market, entry_price,
             trade_count, losing_streak, equity_peak_today, today_date,
             trading_paused_for_today, last_price_for_equity, loop_price,
             start_balance, last_event, clock, pc>>

-----------------------------------------------------------------------------
(* Program constants *)

NoPrice == -1                    \* Python None where a Decimal is expected
NoMarket == "None"               \* Python None where a market is expected

TAKE_PROFIT_PCT == 10            \* 0.010, in thousandths
STOP_LOSS_PCT == 15              \* 0.015, in thousandths
POSITION_SIZE_FRACTION == 30     \* 0.30, in hundredths
MAX_DAILY_DRAWDOWN == 5          \* 0.05, in hundredths
MAX_LOSING_STREAK == 3
MIN_TRADE_USD == 1000            \* Decimal("10"), in cents
MicroPerCent == 1000000          \* 1e-8 dollar units in one cent
Thousand == 1000                 \* limb size of the split products

(* Bounds of the model *)

MaxDay == 2                      \* the clock runs over days 0..MaxDay
MaxTrades == 3                   \* entries per run

-----------------------------------------------------------------------------
(* Decimal helpers *)

\* q + r/d rounded to an integer, ties to even (ROUND_HALF_EVEN); 0 <= r < d
RoundHalfEven(q, r, d) ==
    IF 2 * r > d \/ (2 * r = d /\ q % 2 = 1) THEN q + 1 ELSE q

\* coins * price as an exact equity pair (coins in 1e-8, price in dollars)
CoinValue(coins, price) ==
    LET hi == coins \div Thousand
        lo == coins % Thousand
        x  == hi * price + (lo * price) \div Thousand
        r1 == (lo * price) % Thousand
    IN [c |-> x \div Thousand, f |-> (x % Thousand) * Thousand + r1]

\* (coins * price).quantize(Decimal("0.01")), in cents
QuantizeCents(v) == RoundHalfEven(v.c, v.f, MicroPerCent)

\* mutant: the spend is cut to cents instead of rounded
SpendOf_Truncated(usd) == (usd * POSITION_SIZE_FRACTION) \div 100

\* (usd_balance * POSITION_SIZE_FRACTION).quantize(Decimal("0.01"))
SpendOf(usd) ==
    RoundHalfEven((usd * POSITION_SIZE_FRACTION) \div 100,
                  (usd * POSITION_SIZE_FRACTION) % 100, 100)

\* (usd_to_spend / price).quantize(Decimal("0.00000001")), in 1e-8 coin
CoinsOf(spend, price) ==
    LET a  == spend * Thousand
        q1 == a \div price
        r1 == a % price
        b  == r1 * Thousand
    IN RoundHalfEven(q1 * Thousand + b \div price, b % price, price)

EqGt(a, b) == a.c > b.c \/ (a.c = b.c /\ a.f > b.f)
EqGe(a, b) == a.c > b.c \/ (a.c = b.c /\ a.f >= b.f)

\* mutant: the loss is divided by the current equity instead of the peak
DrawdownReached_OverEquity(peak, equity) ==
    LET borrow == IF peak.f < equity.f THEN 1 ELSE 0
        dc == peak.c - equity.c - borrow
        df == peak.f - equity.f + borrow * MicroPerCent
        lhs == [c |-> 100 * dc + (100 * df) \div MicroPerCent,
                f |-> (100 * df) % MicroPerCent]
        rhs == [c |-> MAX_DAILY_DRAWDOWN * equity.c
                        + (MAX_DAILY_DRAWDOWN * equity.f) \div MicroPerCent,
                f |-> (MAX_DAILY_DRAWDOWN * equity.f) % MicroPerCent]
    IN lhs.c > rhs.c \/ (lhs.c = rhs.c /\ lhs.f >= rhs.f)

\* drawdown = (peak - equity) / peak;  drawdown >= MAX_DAILY_DRAWDOWN,
\* for peak >= equity, as  100 * (peak - equity) >= MAX_DAILY_DRAWDOWN * peak
DrawdownReached(peak, equity) ==
    LET borrow == IF peak.f < equity.f THEN 1 ELSE 0
        dc == peak.c - equity.c - borrow
        df == peak.f - equity.f + borrow * MicroPerCent
        lhs == [c |-> 100 * dc + (100 * df) \div MicroPerCent,
                f |-> (100 * df) % MicroPerCent]
        rhs == [c |-> MAX_DAILY_DRAWDOWN * peak.c
                        + (MAX_DAILY_DRAWDOWN * peak.f) \div MicroPerCent,
                f |-> (MAX_DAILY_DRAWDOWN * peak.f) % MicroPerCent]
    IN EqGe(lhs, rhs)

\* mutants: a strict comparison with the threshold
TakeProfitReached_Strict(price, entry) ==
    Thousand * (price - entry) > TAKE_PROFIT_PCT * entry
StopLossReached_Strict(price, entry) ==
    Thousand * (price - entry) < -(STOP_LOSS_PCT * entry)

\* pnl = (price - entry) / entry compared with the thresholds (entry > 0)
TakeProfitReached(price, entry) ==
    Thousand * (price - entry) >= TAKE_PROFIT_PCT * entry
StopLossReached(price, entry) ==
    Thousand * (price - entry) <= -(STOP_LOSS_PCT * entry)

\* `x or Decimal("0")`
OrZero(p) == IF p = NoPrice THEN 0 ELSE p

-----------------------------------------------------------------------------
(* Risk & equity *)

current_equity_of(usd, coins, last_price) ==
    IF last_price = NoPrice \/ coins = 0
    THEN [c |-> usd, f |-> 0]
    ELSE LET v == CoinValue(coins, last_price)
         IN [c |-> usd + v.c, f |-> v.f]

current_equity(last_price) ==
    current_equity_of(usd_balance, coin_balance, last_price)

\* the row log_event appends, written with the balances usd, coins
log_event(event, market, price, amount, comment, usd, coins) ==
    LET equity == current_equity_of(usd, coins, price)
    IN [event |-> event,
        market |-> IF market = NoMarket THEN "" ELSE market,   \* market or ""
        price |-> price,
        amount |-> amount, usd_balance |-> usd, coin_balance |-> coins,
        equity |-> QuantizeCents(equity),
        pnl |-> QuantizeCents([c |-> equity.c - start_balance,
                               f |-> equity.f]),
        comment |-> comment]

NoEvent ==
    [event |-> "NONE", market |-> "", price |-> 0, amount |-> 0,
     usd_balance |-> 0, coin_balance |-> 0, equity |-> 0, pnl |-> 0,
     comment |-> ""]

\* mutant: the pause is recomputed by every update instead of latched
DailyState_Recomputed(last_price, d) ==
    LET rolled  == d # today_date
        equity  == current_equity(OrZero(last_price))
        peak0   == IF rolled THEN equity ELSE equity_peak_today
        paused0 == IF rolled THEN FALSE ELSE trading_paused_for_today
        peak1   == IF EqGt(equity, peak0) THEN equity ELSE peak0
        deep    == /\ EqGt(peak1, [c |-> 0, f |-> 0])
                   /\ DrawdownReached(peak1, equity)
    IN [date |-> d, peak |-> peak1, paused |-> deep,
        locked |-> deep /\ ~paused0]

\* mutant: a new day starts the peak from the starting balance
DailyState_PeakFromStart(last_price, d) ==
    LET rolled  == d # today_date
        equity  == current_equity(OrZero(last_price))
        peak0   == IF rolled THEN [c |-> start_balance, f |-> 0]
                             ELSE equity_peak_today
        paused0 == IF rolled THEN FALSE ELSE trading_paused_for_today
        peak1   == IF EqGt(equity, peak0) THEN equity ELSE peak0
        lock    == /\ EqGt(peak1, [c |-> 0, f |-> 0])
                   /\ DrawdownReached(peak1, equity)
                   /\ ~paused0
    IN [date |-> d, peak |-> peak1, paused |-> (paused0 \/ lock),
        locked |-> lock]

\* the values update_daily_state leaves, for the date d the clock shows
DailyState(last_price, d) ==
    LET rolled  == d # today_date
        equity  == current_equity(OrZero(last_price))
        peak0   == IF rolled THEN equity ELSE equity_peak_today
        paused0 == IF rolled THEN FALSE ELSE trading_paused_for_today
        peak1   == IF EqGt(equity, peak0) THEN equity ELSE peak0
        lock    == /\ EqGt(peak1, [c |-> 0, f |-> 0])
                   /\ DrawdownReached(peak1, equity)
                   /\ ~paused0
    IN [date |-> d, peak |-> peak1, paused |-> (paused0 \/ lock),
        locked |-> lock]

update_daily_state(last_price) ==
    LET s == DailyState(last_price, clock)
    IN /\ today_date' = s.date
       /\ equity_peak_today' = s.peak
       /\ trading_paused_for_today' = s.paused
       /\ last_event' =
            IF s.locked
            THEN log_event("DAILY_DRAWDOWN_LOCK", current_market,
                           OrZero(last_price), 0, "Daily drawdown lockout",
                           usd_balance, coin_balance)
            ELSE last_event

-----------------------------------------------------------------------------
(* Trading actions *)

\* mutant: a spend below the floor of 10 dollars is not refused
enter_position_NoFloor(market, price) ==
    LET usd_to_spend == SpendOf(usd_balance)
        coins == CoinsOf(usd_to_spend, price)
    IN IF usd_balance <= 0 \/ coins <= 0
       THEN UNCHANGED <<usd_balance, coin_balance, current_market,
                        entry_price, trade_count, last_event>>
       ELSE /\ usd_balance' = usd_balance - usd_to_spend
            /\ coin_balance' = coin_balance + coins
            /\ current_market' = market
            /\ entry_price' = price
            /\ trade_count' = trade_count + 1
            /\ last_event' = log_event("BUY", market, price, coins,
                                       "Enter position",
                                       usd_balance - usd_to_spend,
                                       coin_balance + coins)

enter_position(market, price) ==
    LET usd_to_spend == SpendOf(usd_balance)
        coins == CoinsOf(usd_to_spend, price)
    IN IF usd_balance <= 0 \/ usd_to_spend < MIN_TRADE_USD \/ coins <= 0
       THEN UNCHANGED <<usd_balance, coin_balance, current_market,
                        entry_price, trade_count, last_event>>
       ELSE /\ usd_balance' = usd_balance - usd_to_spend
            /\ coin_balance' = coin_balance + coins
            /\ current_market' = market
            /\ entry_price' = price
            /\ trade_count' = trade_count + 1
            /\ last_event' = log_event("BUY", market, price, coins,
                                       "Enter position",
                                       usd_balance - usd_to_spend,
                                       coin_balance + coins)

\* mutant: a winning exit leaves the losing streak as it is
exit_position_KeepsStreak(reason, price) ==
    IF current_market = NoMarket \/ entry_price = NoPrice \/ coin_balance <= 0
    THEN UNCHANGED <<usd_balance, coin_balance, current_market, entry_price,
                     losing_streak, last_event>>
    ELSE LET coins == coin_balance
             proceeds == QuantizeCents(CoinValue(coins, price))
         IN /\ usd_balance' = usd_balance + proceeds
            /\ coin_balance' = 0
            /\ last_event' = log_event("SELL", current_market, price, coins,
                                       reason, usd_balance + proceeds, 0)
            /\ losing_streak' = IF price < entry_price
                                THEN losing_streak + 1 ELSE losing_streak
            /\ current_market' = NoMarket
            /\ entry_price' = NoPrice

\* pnl = (price - entry_price) / entry_price is negative, entry_price > 0
TradeLost(price, entry) == price < entry

exit_position(reason, price) ==
    IF current_market = NoMarket \/ entry_price = NoPrice \/ coin_balance <= 0
    THEN UNCHANGED <<usd_balance, coin_balance, current_market, entry_price,
                     losing_streak, last_event>>
    ELSE LET coins == coin_balance
             proceeds == QuantizeCents(CoinValue(coins, price))
         IN /\ usd_balance' = usd_balance + proceeds
            /\ coin_balance' = 0
            /\ last_event' = log_event("SELL", current_market, price, coins,
                                       reason, usd_balance + proceeds, 0)
            /\ losing_streak' = IF TradeLost(price, entry_price)
                                THEN losing_streak + 1 ELSE 0
            /\ current_market' = NoMarket
            /\ entry_price' = NoPrice

-----------------------------------------------------------------------------
(* Indicators.  A quotient of the code is kept as an exact fraction        *)
(* [n, d] with d > 0 and compared by cross-multiplication; the code        *)
(* rounds each quotient to 28 significant digits, which changes no         *)
(* comparison between integers of the size used here.                      *)

NoValue == [n |-> 0, d |-> 0]        \* Python None where a ratio is expected

RECURSIVE SumSeq(_)
SumSeq(s) == IF s = <<>> THEN 0 ELSE Head(s) + SumSeq(Tail(s))

\* values[-period:]
LastN(values, period) ==
    SubSeq(values, Len(values) - period + 1, Len(values))

sma(values, period) ==
    IF Len(values) < period
    THEN NoValue
    ELSE [n |-> SumSeq(LastN(values, period)), d |-> period]

\* diff = values[-i] - values[-i - 1] for i in 1..period
RsiDiff(values, i) == values[Len(values) - i + 1] - values[Len(values) - i]

rsi(values, period) ==
    IF Len(values) <= period
    THEN NoValue
    ELSE LET idx    == 1 .. period
             gainAt == {i \in idx : RsiDiff(values, i) > 0}
             lossAt == idx \ gainAt          \* the else branch: diff <= 0
             G == SumSeq([k \in 1 .. period |->
                            IF k \in gainAt THEN RsiDiff(values, k) ELSE 0])
             L == SumSeq([k \in 1 .. period |->
                            IF k \in lossAt THEN -RsiDiff(values, k) ELSE 0])
         IN IF gainAt = {} /\ lossAt = {}
            THEN [n |-> 50, d |-> 1]
            ELSE IF L = 0                    \* avg_loss == 0
                 THEN [n |-> 100, d |-> 1]
                 ELSE [n |-> 100 * G, d |-> G + L]

\* floor(n * 10^k / d) and the remainder, by long division (d > 0)
RECURSIVE DecDiv(_, _, _)
DecDiv(n, d, k) ==
    IF k = 0
    THEN [q |-> n \div d, r |-> n % d]
    ELSE LET p == DecDiv(n, d, k - 1)
         IN [q |-> p.q * 10 + (p.r * 10) \div d, r |-> (p.r * 10) % d]

Abs(x) == IF x < 0 THEN -x ELSE x

\* n / d in millionths, rounded half even
Millionths(n, d) == LET p == DecDiv(n, d, 6) IN RoundHalfEven(p.q, p.r, d)

\* avg_abs_return: the sum of abs((curr - prev) / prev) over the pairs with
\* prev > 0, divided by len - 1.  Each term is carried in millionths.
RECURSIVE AbsReturnSum(_, _)
AbsReturnSum(values, i) ==
    IF i > Len(values)
    THEN 0
    ELSE (IF values[i - 1] <= 0
          THEN 0
          ELSE Millionths(Abs(values[i] - values[i - 1]), values[i - 1]))
         + AbsReturnSum(values, i + 1)

avg_abs_return(values) ==
    IF Len(values) < 2
    THEN [n |-> 0, d |-> 1]
    ELSE [n |-> AbsReturnSum(values, 2), d |-> Len(values) - 1]

-----------------------------------------------------------------------------
(* Market data.  A response of the candles endpoint is a sequence of       *)
(* closes, oldest first (the list after closes.reverse()); FetchError      *)
(* stands for a request that raised.                                       *)

MIN_TREND_STRENGTH == 2          \* 0.002, in thousandths
RSI_BUY_MIN == 40
RSI_BUY_MAX == 65
MIN_VOLATILITY == 2000           \* 0.002, in millionths
MAX_VOLATILITY == 30000          \* 0.030, in millionths
MIN_CANDLES == 30
SMA_SHORT == 9
SMA_LONG == 21
RSI_PERIOD == 14
VOL_WINDOW == 40
One == 1000000                   \* Decimal("1") on the score scale
Sentinel == -999000000           \* Decimal("-999") on the score scale

MaxScan == 2                     \* markets scanned per cycle (8 in the source)
ALL_MARKETS == {"BTC-USD", "ETH-USD"}      \* two of the fifteen
MAX_MARKETS_PER_SCAN == MaxScan

FetchError == <<-1>>
NoCandles == <<>>                \* get_recent_candles returning None

\* n closes ending at last: alternately one step of up and one of -down
Zigzag(last, n, up, down) ==
    [i \in 1 .. n |-> last - ((n - i) \div 2) * (up - down)
                           - (IF (n - i) % 2 = 1 THEN up ELSE 0)]

\* the candle series the endpoint may answer with, all ending at 50000
Candles ==
    { Zigzag(50000, MIN_CANDLES, 300, 200),           \* accepted
      Zigzag(50000, MIN_CANDLES, 300, 250),           \* accepted, lower score
      Zigzag(50000, MIN_CANDLES, 400, 200),           \* RSI above the band
      Zigzag(50000, MIN_CANDLES, 0, 0),               \* flat
      Zigzag(50000, MIN_CANDLES - 1, 300, 200) }      \* too short

Responses == Candles \cup {FetchError}

\* n closes, x at the odd places and y at the even ones
Alternating(n, x, y) == [i \in 1 .. n |-> IF i % 2 = 1 THEN x ELSE y]

\* 30 closes whose last 21 average 50000 when their last 9 average 50100,
\* that is when a = 50225: then (short_ma - long_ma) / long_ma = 0.002
TrendSeries(a) ==
    Alternating(SMA_LONG, 49825, 50025) \o Alternating(SMA_SHORT, 50000, a)

\* the series of the market-scan harness: the catalogue, series on and
\* next to the trend threshold, a downtrend, series longer than the
\* volatility window and than the minimum, and series that are too short
ShortLengths == {0, 1, SMA_LONG, MIN_CANDLES - 1}
ScanSeries ==
    Candles
    \cup {TrendSeries(50224), TrendSeries(50225), TrendSeries(50226)}
    \cup {Zigzag(50000, MIN_CANDLES, 200, 300),
          Zigzag(50000, VOL_WINDOW + 5, 300, 200),
          Zigzag(50000, MIN_CANDLES + 1, 300, 200)}
    \cup {Zigzag(50000, n, 300, 200) : n \in ShortLengths}

ScanResponses == ScanSeries \cup {FetchError}

\* mutant: the series is not required to hold 30 closes
get_recent_candles_NoMinimum(response) ==
    IF response = FetchError THEN NoCandles ELSE response

get_recent_candles(response) ==
    IF response = FetchError \/ Len(response) < MIN_CANDLES
    THEN NoCandles
    ELSE response

\* closes[-40:]
Tail40(closes) ==
    IF Len(closes) <= VOL_WINDOW THEN closes ELSE LastN(closes, VOL_WINDOW)

Rejected(price) == [score |-> Sentinel, price |-> price]

\* score_market on the closes get_recent_candles returned: (score, price).
\* The filters compare exact fractions; the score is carried in millionths.
score_market(closes) ==
    IF closes = NoCandles
    THEN Rejected(NoPrice)
    ELSE LET price       == closes[Len(closes)]
             short_ma    == sma(closes, SMA_SHORT)
             long_ma     == sma(closes, SMA_LONG)
             current_rsi == rsi(closes, RSI_PERIOD)
             vol         == avg_abs_return(Tail40(closes))
             \* (short_ma - long_ma) / long_ma
             trend == [n |-> short_ma.n * long_ma.d - long_ma.n * short_ma.d,
                       d |-> long_ma.n * short_ma.d]
             volM  == RoundHalfEven(vol.n \div vol.d, vol.n % vol.d, vol.d)
             rsi_score == One - Millionths(
                              Abs(2 * current_rsi.n
                                  - (RSI_BUY_MIN + RSI_BUY_MAX) * current_rsi.d),
                              100 * current_rsi.d)
             vol_score == One - Abs(volM - (MIN_VOLATILITY + MAX_VOLATILITY)
                                             \div 2)
         IN IF short_ma = NoValue \/ long_ma = NoValue \/ current_rsi = NoValue
            THEN Rejected(NoPrice)
            ELSE IF Thousand * trend.n < MIN_TREND_STRENGTH * trend.d
            THEN Rejected(price)
            ELSE IF ~(/\ RSI_BUY_MIN * current_rsi.d <= current_rsi.n
                      /\ current_rsi.n <= RSI_BUY_MAX * current_rsi.d)
            THEN Rejected(price)
            ELSE IF ~(/\ MIN_VOLATILITY * vol.d <= vol.n
                      /\ vol.n <= MAX_VOLATILITY * vol.d)
            THEN Rejected(price)
            ELSE [score |-> Millionths(100 * trend.n, trend.d)
                            + rsi_score + vol_score,
                  price |-> price]

\* the score of every response of the catalogue
ScoreTable ==
    [r \in Responses \cup ScanResponses |->
        score_market(get_recent_candles(r))]

\* get_random_scan_list: the ordered samples of k markets
ScanLists ==
    LET k == IF MAX_MARKETS_PER_SCAN < Cardinality(ALL_MARKETS)
             THEN MAX_MARKETS_PER_SCAN ELSE Cardinality(ALL_MARKETS)
    IN {l \in [1 .. k -> ALL_MARKETS] :
          \A i, j \in 1 .. k : i # j => l[i] # l[j]}

NoBest == [score |-> Sentinel, market |-> NoMarket, price |-> NoPrice]

\* mutant: a candidate replaces the best one on an equal score too
RECURSIVE BestFrom_LastOfTies(_, _, _, _)
BestFrom_LastOfTies(scan_list, fetch, i, best) ==
    IF i > Len(scan_list)
    THEN best
    ELSE LET m == scan_list[i]
             r == ScoreTable[fetch[m]]
         IN BestFrom_LastOfTies(scan_list, fetch, i + 1,
                     IF r.price # NoPrice /\ r.score >= best.score
                     THEN [score |-> r.score, market |-> m, price |-> r.price]
                     ELSE best)

\* the loop of choose_best_market over scan_list[i..], fetch[m] being the
\* response the candles request for market m gets
RECURSIVE BestFrom(_, _, _, _)
BestFrom(scan_list, fetch, i, best) ==
    IF i > Len(scan_list)
    THEN best
    ELSE LET m == scan_list[i]
             r == ScoreTable[fetch[m]]
         IN BestFrom(scan_list, fetch, i + 1,
                     IF r.price # NoPrice /\ r.score > best.score
                     THEN [score |-> r.score, market |-> m, price |-> r.price]
                     ELSE best)

choose_best_market(scan_list, fetch) == BestFrom(scan_list, fetch, 1, NoBest)

-----------------------------------------------------------------------------
(* main_loop.  pc is the place inside `while True`:                        *)
(*   "update"  before update_daily_state(last_price_for_equity), line 416  *)
(*   "branch"  at `if current_market and entry_price`, line 419            *)
(*   "decide"  after the second update_daily_state, line 448               *)
(*   "sleep"   at time.sleep(SLEEP_SECONDS), line 465                      *)

StartBalances == {0, 3000, 10000, 100000}    \* START_BALANCE_USD from the env
\* answers of the ticker endpoint
LatestPrices == {40000, 42000, 43333, 49250, 49251, 50499, 50500}

\* inputs of the indicator harness: every series of at most MaxLen closes
\* out of 1 .. MaxClose, with every period up to MaxPeriod
MaxClose == 3
MaxPeriod == 2
MaxLen == 4
RsiInputs ==
    {[values |-> v, period |-> p] :
        v \in UNION {[1 .. n -> 1 .. MaxClose] : n \in 1 .. MaxLen},
        p \in 0 .. MaxPeriod}
Pending == [n |-> 0, d |-> -1]    \* the harness has not called rsi yet

\* the market-scan harness is not in use / has not called choose_best_market
NoScan == [scan_list |-> <<>>, fetch |-> <<>>]
NotScanned == [scored |-> <<>>, best |-> [score |-> 0, market |-> "Pending",
                                          price |-> NoPrice]]

InitBot ==
    /\ start_balance \in StartBalances
    /\ usd_balance = start_balance
    /\ coin_balance = 0
    /\ current_market = NoMarket
    /\ entry_price = NoPrice
    /\ trade_count = 0
    /\ losing_streak = 0
    /\ equity_peak_today = [c |-> start_balance, f |-> 0]
    /\ today_date = 0
    /\ trading_paused_for_today = FALSE
    /\ last_price_for_equity = 0
    /\ loop_price = NoPrice
    /\ last_event = NoEvent
    /\ clock = 0
    /\ pc = "update"

Init ==
    /\ InitBot
    /\ rsi_in = [values |-> <<1>>, period |-> 0]
    /\ rsi_out = Pending
    /\ scan_in = NoScan
    /\ scan_out = NotScanned

\* `if current_market and entry_price`
InPosition ==
    current_market # NoMarket /\ entry_price # NoPrice /\ entry_price # 0

\* the system clock passes midnight UTC
ClockTick ==
    /\ clock < MaxDay
    /\ clock' = clock + 1
    /\ UNCHANGED <<usd_balance, coin_balance, current_market, entry_price,
                   trade_count, losing_streak, equity_peak_today, today_date,
                   trading_paused_for_today, last_price_for_equity,
                   loop_price,
                   start_balance, last_event, pc, rsi_in, rsi_out,
                   scan_in, scan_out>>

\* line 416
CycleUpdate ==
    /\ pc = "update"
    /\ update_daily_state(last_price_for_equity)
    /\ pc' = "branch"
    /\ UNCHANGED <<usd_balance, coin_balance, current_market, entry_price,
                   trade_count, losing_streak, last_price_for_equity,
                   loop_price,
                   start_balance, clock, rsi_in, rsi_out,
                   scan_in, scan_out>>

\* mutant: without a price the position is sold at the last known price
HoldNoPrice_ForcedExit ==
    /\ pc = "branch" /\ InPosition
    /\ loop_price' = NoPrice
    /\ exit_position("NO_PRICE", last_price_for_equity)
    /\ pc' = "sleep"
    /\ UNCHANGED <<trade_count, equity_peak_today, today_date,
                   trading_paused_for_today, last_price_for_equity,
                   start_balance, clock, rsi_in, rsi_out,
                   scan_in, scan_out>>

\* lines 420-422: get_latest_price returned None
HoldNoPrice ==
    /\ pc = "branch" /\ InPosition
    /\ loop_price' = NoPrice
    /\ pc' = "sleep"
    /\ UNCHANGED <<usd_balance, coin_balance, current_market, entry_price,
                   trade_count, losing_streak, equity_peak_today, today_date,
                   trading_paused_for_today, last_price_for_equity,
                   start_balance, last_event, clock, rsi_in, rsi_out,
                   scan_in, scan_out>>

\* mutant: after an exit the same cycle goes on to look for an entry
ManagePosition_ThenDecide(p) ==
    /\ pc = "branch" /\ InPosition
    /\ loop_price' = p
    /\ last_price_for_equity' = p
    /\ IF TakeProfitReached(p, entry_price)
       THEN exit_position("TAKE_PROFIT", p) /\ pc' = "decide"
       ELSE IF StopLossReached(p, entry_price)
       THEN exit_position("STOP_LOSS", p) /\ pc' = "decide"
       ELSE /\ last_event' = log_event("HOLD", current_market, p,
                                       coin_balance, "Holding open position",
                                       usd_balance, coin_balance)
            /\ pc' = "sleep"
            /\ UNCHANGED <<usd_balance, coin_balance, current_market,
                           entry_price, losing_streak>>
    /\ UNCHANGED <<trade_count, equity_peak_today, today_date,
                   trading_paused_for_today, start_balance, clock,
                   rsi_in, rsi_out,
                   scan_in, scan_out>>

\* mutant: while the day is paused the open position is only held
ManagePosition_HoldsWhilePaused(p) ==
    /\ pc = "branch" /\ InPosition
    /\ loop_price' = p
    /\ last_price_for_equity' = p
    /\ IF ~trading_paused_for_today /\ TakeProfitReached(p, entry_price)
       THEN exit_position("TAKE_PROFIT", p)
       ELSE IF ~trading_paused_for_today /\ StopLossReached(p, entry_price)
       THEN exit_position("STOP_LOSS", p)
       ELSE /\ last_event' = log_event("HOLD", current_market, p,
                                       coin_balance, "Holding open position",
                                       usd_balance, coin_balance)
            /\ UNCHANGED <<usd_balance, coin_balance, current_market,
                           entry_price, losing_streak>>
    /\ pc' = "sleep"
    /\ UNCHANGED <<trade_count, equity_peak_today, today_date,
                   trading_paused_for_today, start_balance, clock,
                   rsi_in, rsi_out,
                   scan_in, scan_out>>

\* lines 423-441: get_latest_price returned price
ManagePosition(p) ==
    /\ pc = "branch" /\ InPosition
    /\ loop_price' = p
    /\ last_price_for_equity' = p
    /\ IF TakeProfitReached(p, entry_price)
       THEN exit_position("TAKE_PROFIT", p)
       ELSE IF StopLossReached(p, entry_price)
       THEN exit_position("STOP_LOSS", p)
       ELSE /\ last_event' = log_event("HOLD", current_market, p,
                                       coin_balance, "Holding open position",
                                       usd_balance, coin_balance)
            /\ UNCHANGED <<usd_balance, coin_balance, current_market,
                           entry_price, losing_streak>>
    /\ pc' = "sleep"
    /\ UNCHANGED <<trade_count, equity_peak_today, today_date,
                   trading_paused_for_today, start_balance, clock,
                   rsi_in, rsi_out,
                   scan_in, scan_out>>

\* lines 445-446
FlatUpdate ==
    /\ pc = "branch" /\ ~InPosition
    /\ update_daily_state(OrZero(last_price_for_equity))
    /\ pc' = "decide"
    /\ UNCHANGED <<usd_balance, coin_balance, current_market, entry_price,
                   trade_count, losing_streak, last_price_for_equity,
                   loop_price,
                   start_balance, clock, rsi_in, rsi_out,
                   scan_in, scan_out>>

\* mutant: the drawdown pause is not looked at
MayEnter_IgnoringPause == ~(losing_streak >= MAX_LOSING_STREAK)

\* lines 448-453: neither paused for the day nor on a losing streak
MayEnter ==
    ~trading_paused_for_today /\ ~(losing_streak >= MAX_LOSING_STREAK)

\* lines 448-452: entries are not allowed
SkipEntry ==
    /\ pc = "decide"
    /\ ~MayEnter
    /\ pc' = "sleep"
    /\ UNCHANGED <<usd_balance, coin_balance, current_market, entry_price,
                   trade_count, losing_streak, equity_peak_today, today_date,
                   trading_paused_for_today, last_price_for_equity,
                   loop_price,
                   start_balance, last_event, clock, rsi_in, rsi_out,
                   scan_in, scan_out>>

\* lines 453-461: scan, and enter the best market if there is one
ScanAndEnter(scan_list, fetch) ==
    /\ pc = "decide"
    /\ MayEnter
    /\ LET best == choose_best_market(scan_list, fetch)
       IN /\ loop_price' = best.price
          /\ IF best.market = NoMarket \/ best.price = NoPrice
                \/ best.score < 0
             THEN UNCHANGED <<usd_balance, coin_balance, current_market,
                              entry_price, trade_count, last_event,
                              last_price_for_equity>>
             ELSE /\ trade_count < MaxTrades
                  /\ last_price_for_equity' = best.price
                  /\ enter_position(best.market, best.price)
    /\ pc' = "sleep"
    /\ UNCHANGED <<losing_streak, equity_peak_today, today_date,
                   trading_paused_for_today, start_balance, clock,
                   rsi_in, rsi_out,
                   scan_in, scan_out>>

\* line 465
Sleep ==
    /\ pc = "sleep"
    /\ pc' = "update"
    /\ UNCHANGED <<usd_balance, coin_balance, current_market, entry_price,
                   trade_count, losing_streak, equity_peak_today, today_date,
                   trading_paused_for_today, last_price_for_equity,
                   loop_price,
                   start_balance, last_event, clock, rsi_in, rsi_out,
                   scan_in, scan_out>>

Next ==
    \/ ClockTick
    \/ CycleUpdate
    \/ HoldNoPrice
    \/ \E p \in LatestPrices : ManagePosition(p)
    \/ FlatUpdate
    \/ SkipEntry
    \/ \E scan_list \in ScanLists, fetch \in [ALL_MARKETS -> Responses] :
          ScanAndEnter(scan_list, fetch)
    \/ Sleep

Spec == Init /\ [][Next]_vars

-----------------------------------------------------------------------------
(* The indicator harness: rsi applied to one input drawn at the start.     *)

InitRsi ==
    /\ InitBot
    /\ rsi_in \in RsiInputs
    /\ rsi_out = Pending
    /\ scan_in = NoScan
    /\ scan_out = NotScanned

ApplyRsi ==
    /\ rsi_out = Pending
    /\ rsi_out' = rsi(rsi_in.values, rsi_in.period)
    /\ UNCHANGED <<botVars, rsi_in, scan_in, scan_out>>

NextRsi == ApplyRsi

SpecRsi == InitRsi /\ [][NextRsi]_vars

-----------------------------------------------------------------------------
(* The market-scan harness: the first cycle of a run, with the scan list   *)
(* and the candle responses drawn at the start; choose_best_market is      *)
(* applied to them, then the decision step of the cycle runs on them.      *)

ScanInputs ==
    {[scan_list |-> l, fetch |-> f] :
        l \in ScanLists, f \in [ALL_MARKETS -> ScanResponses]}

InitScan ==
    /\ InitBot
    /\ rsi_in = [values |-> <<1>>, period |-> 0]
    /\ rsi_out = Pending
    /\ scan_in \in ScanInputs
    /\ scan_out = NotScanned

\* lines 282-290: what score_market returns for each market of the scan
\* list, in its order, and the tuple choose_best_market returns
ApplyScan ==
    /\ pc = "decide"
    /\ scan_out = NotScanned
    /\ scan_out' =
          [scored |-> [i \in 1 .. Len(scan_in.scan_list) |->
                          score_market(get_recent_candles(
                              scan_in.fetch[scan_in.scan_list[i]]))],
           best |-> choose_best_market(scan_in.scan_list, scan_in.fetch)]
    /\ UNCHANGED <<botVars, rsi_in, rsi_out, scan_in>>

\* lines 453-461 on the scan list and the responses of scan_in
EnterScanned ==
    /\ scan_out # NotScanned
    /\ ScanAndEnter(scan_in.scan_list, scan_in.fetch)

NextScan ==
    \/ CycleUpdate
    \/ FlatUpdate
    \/ ApplyScan
    \/ EnterScanned

SpecScan == InitScan /\ [][NextScan]_vars

-----------------------------------------------------------------------------
(* The entry harness: the first cycle of a run whose scan has returned a   *)
(* market and a price, for starting balances around the floor of the spend *)
(* and for prices at which the amount bought rounds to zero.               *)

\* START_BALANCE_USD in cents: 0.30 of 33.31 rounds to 9.99 and of 33.32 to
\* 10.00
EnterBalances == {0, 1000, 3000, 10000, 100000} \cup (3325 .. 3340)

\* the price of the market returned: at 2000000000 a spend of 10.00 buys
\* 0.000000005, which rounds to 0, and one dollar below it rounds to 1e-8
EnterPrices(usd) ==
    IF usd <= 3340 THEN {50000, 1999999999, 2000000000} ELSE {50000}

InitEnter ==
    /\ start_balance \in EnterBalances
    /\ usd_balance = start_balance
    /\ coin_balance = 0
    /\ current_market = NoMarket
    /\ entry_price = NoPrice
    /\ trade_count = 0
    /\ losing_streak = 0
    /\ equity_peak_today = [c |-> start_balance, f |-> 0]
    /\ today_date = 0
    /\ trading_paused_for_today = FALSE
    /\ last_price_for_equity = 0
    /\ loop_price = NoPrice
    /\ last_event = NoEvent
    /\ clock = 0
    /\ pc = "update"
    /\ rsi_in = [values |-> <<1>>, period |-> 0]
    /\ rsi_out = Pending
    /\ scan_in = NoScan
    /\ scan_out = NotScanned

\* lines 453-461 with choose_best_market returning market and price
EnterCall(market, price) ==
    /\ pc = "decide"
    /\ MayEnter
    /\ loop_price' = price
    /\ last_price_for_equity' = price
    /\ enter_position(market, price)
    /\ pc' = "sleep"
    /\ UNCHANGED <<losing_streak, equity_peak_today, today_date,
                   trading_paused_for_today, start_balance, clock,
                   rsi_in, rsi_out,
                   scan_in, scan_out>>

NextEnter ==
    \/ CycleUpdate
    \/ FlatUpdate
    \/ \E market \in ALL_MARKETS, price \in EnterPrices(usd_balance) :
          EnterCall(market, price)

SpecEnter == InitEnter /\ [][NextEnter]_vars

-----------------------------------------------------------------------------
(* The loop with an event sink that may refuse a row: a call of log_event  *)
(* raises (ensure_trade_log_exists, open or the write fails).  The         *)
(* exception leaves the function that called log_event with the            *)
(* assignments it has made so far and is caught by `except Exception` of   *)
(* main_loop, line 470:                                                    *)
(*   "error"   in the handler, before its log and time.sleep(10)           *)
(* The console (log) accepts every line, and KeyboardInterrupt, which      *)
(* ends the loop by design, is not raised.                                 *)

\* update_daily_state up to the log_event of line 330, which raises
update_daily_state_raising(last_price) ==
    LET s == DailyState(last_price, clock)
    IN /\ s.locked
       /\ today_date' = s.date
       /\ equity_peak_today' = s.peak
       /\ trading_paused_for_today' = s.paused
       /\ last_event' = last_event

\* enter_position up to the log_event of line 362, which raises
enter_position_raising(market, price) ==
    LET usd_to_spend == SpendOf(usd_balance)
        coins == CoinsOf(usd_to_spend, price)
    IN /\ ~(usd_balance <= 0 \/ usd_to_spend < MIN_TRADE_USD \/ coins <= 0)
       /\ usd_balance' = usd_balance - usd_to_spend
       /\ coin_balance' = coin_balance + coins
       /\ current_market' = market
       /\ entry_price' = price
       /\ trade_count' = trade_count + 1
       /\ last_event' = last_event

\* exit_position up to the log_event of line 382, which raises
exit_position_raising(price) ==
    /\ ~(current_market = NoMarket \/ entry_price = NoPrice
         \/ coin_balance <= 0)
    /\ usd_balance' = usd_balance + QuantizeCents(CoinValue(coin_balance,
                                                            price))
    /\ coin_balance' = 0
    /\ UNCHANGED <<current_market, entry_price, losing_streak, last_event>>

\* line 416, the DAILY_DRAWDOWN_LOCK row is refused
CycleUpdateRaises ==
    /\ pc = "update"
    /\ update_daily_state_raising(last_price_for_equity)
    /\ pc' = "error"
    /\ UNCHANGED <<usd_balance, coin_balance, current_market, entry_price,
                   trade_count, losing_streak, last_price_for_equity,
                   loop_price,
                   start_balance, clock, rsi_in, rsi_out,
                   scan_in, scan_out>>

\* lines 423-441, the SELL or the HOLD row is refused
ManagePositionRaises(p) ==
    /\ pc = "branch" /\ InPosition
    /\ loop_price' = p
    /\ last_price_for_equity' = p
    /\ IF TakeProfitReached(p, entry_price) \/ StopLossReached(p, entry_price)
       THEN exit_position_raising(p)
       ELSE UNCHANGED <<usd_balance, coin_balance, current_market,
                        entry_price, losing_streak, last_event>>
    /\ pc' = "error"
    /\ UNCHANGED <<trade_count, equity_peak_today, today_date,
                   trading_paused_for_today, start_balance, clock,
                   rsi_in, rsi_out,
                   scan_in, scan_out>>

\* lines 453-461, the BUY row is refused
ScanAndEnterRaises(scan_list, fetch) ==
    /\ pc = "decide"
    /\ MayEnter
    /\ LET best == choose_best_market(scan_list, fetch)
       IN /\ ~(best.market = NoMarket \/ best.price = NoPrice
               \/ best.score < 0)
          /\ trade_count < MaxTrades
          /\ loop_price' = best.price
          /\ last_price_for_equity' = best.price
          /\ enter_position_raising(best.market, best.price)
    /\ pc' = "error"
    /\ UNCHANGED <<losing_streak, equity_peak_today, today_date,
                   trading_paused_for_today, start_balance, clock,
                   rsi_in, rsi_out,
                   scan_in, scan_out>>

\* mutant: the handler ends the loop, as it does for KeyboardInterrupt
ErrorHandler_Stops ==
    /\ pc = "error"
    /\ pc' = "stopped"
    /\ UNCHANGED <<usd_balance, coin_balance, current_market, entry_price,
                   trade_count, losing_streak, equity_peak_today, today_date,
                   trading_paused_for_today, last_price_for_equity,
                   loop_price,
                   start_balance, last_event, clock, rsi_in, rsi_out,
                   scan_in, scan_out>>

\* lines 470-472: log the error, time.sleep(10), next pass of `while True`
ErrorHandler ==
    /\ pc = "error"
    /\ pc' = "update"
    /\ UNCHANGED <<usd_balance, coin_balance, current_market, entry_price,
                   trade_count, losing_streak, equity_peak_today, today_date,
                   trading_paused_for_today, last_price_for_equity,
                   loop_price,
                   start_balance, last_event, clock, rsi_in, rsi_out,
                   scan_in, scan_out>>

\* the environment of the loop with faults: one start balance, and ticker
\* answers that give a stop loss deep enough for the drawdown lock, a hold
\* and a take profit
FaultBalances == {10000}
FaultPrices == {40000, 49251, 50500}

InitFault == Init /\ start_balance \in FaultBalances

\* The second update of a flat cycle (line 446) never records the lock: the
\* update of line 416 has recorded it, or has seen a new day and taken the
\* equity as the peak.  So no refusal is possible there.
NextFault ==
    \/ ClockTick
    \/ CycleUpdate
    \/ HoldNoPrice
    \/ \E p \in FaultPrices : ManagePosition(p)
    \/ FlatUpdate
    \/ SkipEntry
    \/ \E scan_list \in ScanLists, fetch \in [ALL_MARKETS -> Responses] :
          ScanAndEnter(scan_list, fetch)
    \/ Sleep
    \/ CycleUpdateRaises
    \/ \E p \in FaultPrices : ManagePositionRaises(p)
    \/ \E scan_list \in ScanLists, fetch \in [ALL_MARKETS -> Responses] :
          ScanAndEnterRaises(scan_list, fetch)
    \/ ErrorHandler

\* the process keeps running: the handler's sleep of 10 seconds returns
SpecFault == InitFault /\ [][NextFault]_vars /\ WF_vars(ErrorHandler)

-----
(* Steps of the loop, as the claims name them *)

\* a position is opened
EntryStep ==
    \/ trade_count' # trade_count
    \/ coin_balance' > coin_balance
    \/ (current_market' # current_market /\ current_market' # NoMarket)

\* the open position is sold
ExitStep == coin_balance' < coin_balance

\* update_daily_state has run (line 416 or line 446)
RiskUpdateStep ==
    \/ (pc = "update" /\ pc' = "branch")
    \/ (pc = "branch" /\ pc' = "decide")

ZeroEquity == [c |-> 0, f |-> 0]

\* the position-management step of a cycle (lines 419-441)
ManageStep == pc = "branch" /\ InPosition /\ pc' = "sleep"

\* k times an equity pair
Scaled(e, k) ==
    [c |-> k * e.c + (k * e.f) \div MicroPerCent,
     f |-> (k * e.f) % MicroPerCent]

-----------------------------------------------------------------------------
(* C1: a risk update that observes a new day leaves losing_streak = 0,     *)
(* whatever it was before.                                                 *)
C1_RolloverClearsLosingStreak ==
    [][today_date' # today_date => losing_streak' = 0]_vars

(* C2: rsi returns 50 for every series longer than the period whose last   *)
(* `period` differences are all zero, and returns 100 only when some       *)
(* difference is positive and none is negative.                            *)
C2_RsiFlatIsNeutral ==
    (rsi_out # Pending /\ Len(rsi_in.values) > rsi_in.period) =>
        LET diffs == {RsiDiff(rsi_in.values, i) : i \in 1 .. rsi_in.period}
        IN /\ (\A x \in diffs : x = 0) => rsi_out = [n |-> 50, d |-> 1]
           /\ rsi_out = [n |-> 100, d |-> 1] =>
                 (\E x \in diffs : x > 0) /\ ~(\E x \in diffs : x < 0)

(* C3: a position is opened only by the decision step of a cycle in which  *)
(* trading is not paused for the day, the losing streak is below           *)
(* MAX_LOSING_STREAK and no position is open; so no entry ever replaces a  *)
(* live position.                                                          *)
C3_EntryOnlyWhenPermitted ==
    [][EntryStep =>
          /\ pc = "decide"
          /\ ~trading_paused_for_today
          /\ losing_streak < MAX_LOSING_STREAK
          /\ current_market = NoMarket
          /\ entry_price = NoPrice
          /\ coin_balance = 0]_vars

\* a second entry has happened after the bot was paused or had lost trades
C3_Witness ==
    /\ last_event.event = "BUY"
    /\ pc = "sleep"
    /\ trade_count >= 2
    /\ losing_streak > 0
    /\ coin_balance > 0

(* C4: once trading_paused_for_today is true it stays true while           *)
(* today_date is unchanged, and it turns false only in a risk update that  *)
(* sees a date different from today_date.                                  *)
C4_PauseLatchesForTheDay ==
    [][/\ (trading_paused_for_today /\ today_date' = today_date)
             => trading_paused_for_today'
       /\ (trading_paused_for_today /\ ~trading_paused_for_today')
             => (RiskUpdateStep /\ clock # today_date /\ today_date' = clock)
      ]_vars

\* the pause is still on after a winning exit took the drawdown back below
\* the limit, on the day the pause was set
C4_Witness ==
    /\ trading_paused_for_today
    /\ today_date = 0
    /\ last_event.event = "SELL"
    /\ last_event.comment = "TAKE_PROFIT"
    /\ ~EqGe(Scaled(equity_peak_today, 19),
             Scaled(current_equity(last_price_for_equity), 20))

(* C5: after a risk update that leaves a positive peak, a drawdown         *)
(* (peak - equity) / peak of at least 0.05, that is 20 * equity <= 19 *    *)
(* peak, leaves the pause set; if the pause was not set before and the     *)
(* drawdown is below 0.05 it stays unset (peak 1000: equity 940 sets it,   *)
(* equity 960 does not); with a peak <= 0 the update does not set it.      *)
C5_DrawdownSetsPause ==
    [][RiskUpdateStep =>
          LET equity == current_equity(OrZero(last_price_for_equity))
              peak   == equity_peak_today'
              deep   == EqGe(Scaled(peak, 19), Scaled(equity, 20))
          IN /\ (EqGt(peak, ZeroEquity) /\ deep) => trading_paused_for_today'
             /\ (EqGt(peak, ZeroEquity) /\ ~deep /\ ~trading_paused_for_today)
                   => ~trading_paused_for_today'
             /\ (~EqGt(peak, ZeroEquity) /\ ~trading_paused_for_today)
                   => ~trading_paused_for_today'
             /\ (peak = [c |-> 100000, f |-> 0] /\ equity = [c |-> 94000, f |-> 0])
                   => trading_paused_for_today'
             /\ (peak = [c |-> 100000, f |-> 0] /\ equity = [c |-> 96000, f |-> 0]
                 /\ ~trading_paused_for_today)
                   => ~trading_paused_for_today'
      ]_vars

\* peak 1000.00, equity 940.00: the update has just set the pause
C5_Witness ==
    /\ equity_peak_today = [c |-> 100000, f |-> 0]
    /\ usd_balance = 94000
    /\ coin_balance = 0
    /\ trading_paused_for_today
    /\ last_event.event = "DAILY_DRAWDOWN_LOCK"

(* C6: an exit whose realized P/L, proceeds - amount * entry price, is     *)
(* negative adds exactly 1 to losing_streak, an exit whose realized P/L is *)
(* not negative sets it to 0, and no other step changes losing_streak.     *)
C6_StreakFollowsExits ==
    [][IF ExitStep
       THEN LET proceeds == [c |-> usd_balance' - usd_balance, f |-> 0]
                cost     == CoinValue(coin_balance, entry_price)
            IN IF EqGt(cost, proceeds)
               THEN losing_streak' = losing_streak + 1
               ELSE losing_streak' = 0
       ELSE losing_streak' = losing_streak]_vars

\* three losing exits in a row
C6_Witness ==
    /\ losing_streak = 3
    /\ trade_count = 3
    /\ last_event.event = "SELL"
    /\ coin_balance = 0

(* C7: cash and equity are never negative; an entry takes exactly the      *)
(* spend, cash * 0.30 rounded to cents, from the cash; an exit adds        *)
(* exactly the proceeds, amount * exit price rounded to cents; no other    *)
(* step changes the cash.                                                  *)
C7_CashAccounting ==
    /\ [](/\ usd_balance >= 0
          /\ EqGe(current_equity(last_price_for_equity), ZeroEquity))
    /\ [][IF EntryStep
          THEN LET spend == usd_balance - usd_balance'
                   err   == Abs(100 * spend
                                - POSITION_SIZE_FRACTION * usd_balance)
               IN /\ 2 * err <= 100
                  /\ (2 * err = 100 => spend % 2 = 0)
          ELSE IF ExitStep
          THEN LET v == CoinValue(coin_balance, loop_price')
                   proceeds == usd_balance' - usd_balance
               IN \/ (proceeds = v.c /\ 2 * v.f < MicroPerCent)
                  \/ (proceeds = v.c + 1 /\ 2 * v.f > MicroPerCent)
                  \/ (proceeds \in {v.c, v.c + 1} /\ 2 * v.f = MicroPerCent
                      /\ proceeds % 2 = 0)
          ELSE usd_balance' = usd_balance]_vars

\* an entry and an exit that did not give back the spend
C7_Witness ==
    /\ last_event.event = "SELL"
    /\ trade_count >= 2
    /\ usd_balance > 0
    /\ usd_balance < start_balance

(* C8: with cash 100.00 an entry at 50000 spends 30.00, buys 0.00060000    *)
(* and leaves cash 70.00; the exit of that position at 50500 brings 30.30, *)
(* leaves cash 100.30 and removes the position.                            *)
C8_WorkedExample ==
    [][/\ (EntryStep /\ usd_balance = 10000 /\ coin_balance = 0
           /\ entry_price' = 50000)
             => /\ usd_balance' = 7000
                /\ coin_balance' = 60000
                /\ last_event'.amount = 60000
       /\ (ManageStep /\ usd_balance = 7000 /\ coin_balance = 60000
           /\ entry_price = 50000 /\ loop_price' = 50500)
             => /\ usd_balance' = 10030
                /\ usd_balance' - usd_balance = 3030
                /\ coin_balance' = 0
                /\ current_market' = NoMarket
                /\ entry_price' = NoPrice
      ]_vars

\* the position of the example has been sold at 50500
C8_Witness ==
    /\ start_balance = 10000
    /\ trade_count = 1
    /\ usd_balance = 10030
    /\ coin_balance = 0
    /\ current_market = NoMarket
    /\ last_event.event = "SELL"
    /\ last_event.price = 50500
    /\ last_event.amount = 60000

(* C9: in a cycle with an open position whose latest price is available,   *)
(* changePct = (price - entry) / entry >= 0.010 exits with TAKE_PROFIT,    *)
(* changePct <= -0.015 exits with STOP_LOSS, and anything between keeps    *)
(* the position unchanged and records only a HOLD event; no exit happens   *)
(* with changePct strictly between the thresholds.                         *)
C9_ExitDecision ==
    [][/\ (ManageStep /\ loop_price' # NoPrice) =>
             LET gain == 1000 * (loop_price' - entry_price)
             IN IF gain >= 10 * entry_price
                THEN /\ ExitStep
                     /\ current_market' = NoMarket
                     /\ last_event'.event = "SELL"
                     /\ last_event'.comment = "TAKE_PROFIT"
                ELSE IF gain <= -15 * entry_price
                THEN /\ ExitStep
                     /\ current_market' = NoMarket
                     /\ last_event'.event = "SELL"
                     /\ last_event'.comment = "STOP_LOSS"
                ELSE /\ UNCHANGED <<usd_balance, coin_balance, current_market,
                                    entry_price, losing_streak, trade_count>>
                     /\ last_event'.event = "HOLD"
       /\ ExitStep =>
             /\ ManageStep /\ loop_price' # NoPrice
             /\ \/ 1000 * (loop_price' - entry_price) >= 10 * entry_price
                \/ 1000 * (loop_price' - entry_price) <= -15 * entry_price
      ]_vars

\* a stop-loss exit at exactly -1.5 %
C9_Witness ==
    /\ last_event.event = "SELL"
    /\ last_event.comment = "STOP_LOSS"
    /\ last_event.price = 49250
    /\ loop_price = 49250
    /\ current_market = NoMarket
    /\ pc = "sleep"

(* C10: when the latest price of the open position cannot be fetched, the  *)
(* position-management step changes none of usd_balance, coin_balance,     *)
(* current_market, entry_price, losing_streak and trade_count, and no exit *)
(* happens.                                                                *)
C10_NoPriceNoChange ==
    [][(ManageStep /\ loop_price' = NoPrice) =>
          /\ ~ExitStep
          /\ UNCHANGED <<usd_balance, coin_balance, current_market,
                         entry_price, losing_streak, trade_count>>]_vars

\* a cycle went to sleep holding a position whose price was not available
C10_Witness ==
    /\ pc = "sleep"
    /\ loop_price = NoPrice
    /\ current_market # NoMarket
    /\ coin_balance > 0
    /\ entry_price # NoPrice

(* C11: a cycle that fails with an exception does not end the loop: the    *)
(* handler's only step leads to step 1 of a next cycle (the risk update),  *)
(* and from every state in which a cycle has failed a next cycle is        *)
(* eventually started, however many cycles fail in a row.                  *)
C11_FailedCycleRestarts ==
    /\ [][pc = "error" => pc' \in {"error", "update"}]_vars
    /\ (pc = "error") ~> (pc = "update")

\* the entry's BUY row was refused, a later cycle's HOLD row at 49251 was
\* refused too, and the loop is at step 1 again
C11_Witness ==
    /\ pc = "update"
    /\ trade_count = 1
    /\ coin_balance > 0
    /\ last_event = NoEvent
    /\ last_price_for_equity = 49251

(* C12: equity_peak_today never decreases in a step that keeps today_date; *)
(* after every risk update it is at least the equity that update used; a   *)
(* risk update that sees a new day sets it to exactly that equity, also    *)
(* when this is below the peak of the day before and below the starting    *)
(* balance; and only a risk update changes it.                             *)
C12_PeakTracksEquity ==
    [][/\ RiskUpdateStep =>
             LET equity == current_equity(OrZero(last_price_for_equity))
             IN /\ EqGe(equity_peak_today', equity)
                /\ clock # today_date =>
                      /\ today_date' = clock
                      /\ equity_peak_today' = equity
       /\ today_date' = today_date =>
             EqGe(equity_peak_today', equity_peak_today)
       /\ equity_peak_today' # equity_peak_today => RiskUpdateStep
      ]_vars

\* the update of a new day has taken an equity below the starting balance,
\* which the peak of day 0 was never below, as the peak
C12_Witness ==
    /\ pc = "branch"
    /\ today_date = 1
    /\ clock = 1
    /\ EqGt([c |-> start_balance, f |-> 0], equity_peak_today)
    /\ equity_peak_today = current_equity(OrZero(last_price_for_equity))
    /\ coin_balance > 0

(* C13: score_market rejects, with the sentinel score, every series of at  *)
(* least 30 closes whose trend (short_ma - long_ma) / long_ma is not       *)
(* strictly above 0.002, the series whose trend is exactly 0.002 too.      *)
(* With S9 and S21 the sums of the last 9 and 21 closes the trend is       *)
(* (21 * S9 - 9 * S21) / (9 * S21).                                        *)
C13_TrendAtMinimumRejected ==
    scan_out # NotScanned =>
        \A i \in 1 .. Len(scan_in.scan_list) :
            LET closes == scan_in.fetch[scan_in.scan_list[i]]
                S9     == SumSeq(SubSeq(closes, Len(closes) - 8, Len(closes)))
                S21    == SumSeq(SubSeq(closes, Len(closes) - 20,
                                        Len(closes)))
            IN (/\ closes # FetchError
                /\ Len(closes) >= 30
                /\ 1000 * (21 * S9 - 9 * S21) <= 2 * 9 * S21)
                   => scan_out.scored[i].score = Sentinel

(* C14: choose_best_market returns the accepted candidate of the scan list *)
(* with the highest score, the first one in scan order among equal scores, *)
(* with its price, and returns no market when no candidate is accepted; a  *)
(* rejected candidate (sentinel score: filter, fetch failure or too few    *)
(* closes) is never returned and never entered; an accepted score is above *)
(* zero, so above the sentinel, and the market returned is the one the     *)
(* cycle enters.                                                           *)
C14_BestAcceptedMarket ==
    scan_out # NotScanned =>
        LET list     == scan_in.scan_list
            scored   == scan_out.scored
            best     == scan_out.best
            accepted == {i \in 1 .. Len(list) : scored[i].score # Sentinel}
        IN /\ \A i \in accepted : scored[i].score > 0 /\ scored[i].price > 0
           /\ accepted = {} =>
                 /\ best.market = NoMarket
                 /\ best.price = NoPrice
                 /\ best.score = Sentinel
           /\ accepted # {} =>
                 \E i \in accepted :
                    /\ best.market = list[i]
                    /\ best.score = scored[i].score
                    /\ best.price = scored[i].price
                    /\ \A j \in accepted :
                          \/ scored[j].score < scored[i].score
                          \/ (scored[j].score = scored[i].score /\ i <= j)
           /\ \A i \in 1 .. Len(list) :
                 i \notin accepted =>
                    (best.market # list[i] /\ current_market # list[i])
           /\ current_market \in {NoMarket, best.market}
           /\ (pc = "sleep" /\ best.market # NoMarket
               /\ start_balance >= 10000) =>
                 (current_market = best.market /\ entry_price = best.price)

\* both markets were accepted with the same score: the first of the scan
\* list was returned and entered
C14_Witness ==
    /\ scan_out # NotScanned
    /\ pc = "sleep"
    /\ Len(scan_out.scored) = 2
    /\ scan_out.scored[1].score > 0
    /\ scan_out.scored[1] = scan_out.scored[2]
    /\ scan_out.best.market = scan_in.scan_list[1]
    /\ current_market = scan_in.scan_list[1]

(* C15: for a candle response of fewer than 30 closes score_market returns *)
(* the sentinel score and no price, and the market is neither returned by  *)
(* choose_best_market nor entered.                                         *)
C15_ShortSeriesRejected ==
    scan_out # NotScanned =>
        \A i \in 1 .. Len(scan_in.scan_list) :
            Len(scan_in.fetch[scan_in.scan_list[i]]) < 30 =>
                /\ scan_out.scored[i].score = Sentinel
                /\ scan_out.scored[i].price = NoPrice
                /\ scan_out.best.market # scan_in.scan_list[i]
                /\ current_market # scan_in.scan_list[i]

\* the first market of the scan list answered with 29 closes that rise like
\* an accepted series; the other market was accepted and entered
C15_Witness ==
    /\ scan_out # NotScanned
    /\ pc = "sleep"
    /\ scan_in.fetch[scan_in.scan_list[1]] = Zigzag(50000, 29, 300, 200)
    /\ current_market = scan_in.scan_list[2]
    /\ coin_balance > 0

(* C16: when the loop calls enter_position with a cash balance <= 0, or    *)
(* with a spend, 0.30 of the cash rounded to cents, below 10.00, or with   *)
(* an amount, spend / price rounded to 8 decimals, of zero (spend / price  *)
(* <= 0.000000005), then usd_balance, coin_balance, current_market,        *)
(* entry_price and trade_count are unchanged, no position exists, no BUY   *)
(* row is recorded and the cycle goes on to its sleep.                     *)
C16_SizingRefusal ==
    [][(pc = "decide" /\ pc' # "decide") =>
          LET cash  == usd_balance
              price == loop_price'
              q     == (30 * cash) \div 100
              r     == (30 * cash) % 100
              spend == IF r > 50 \/ (r = 50 /\ q % 2 = 1) THEN q + 1 ELSE q
          IN (cash <= 0 \/ spend < 1000 \/ spend <= price \div 2000000) =>
                /\ UNCHANGED <<usd_balance, coin_balance, current_market,
                               entry_price, trade_count, last_event>>
                /\ current_market' = NoMarket
                /\ coin_balance' = 0
                /\ last_event'.event # "BUY"
                /\ pc' = "sleep"
      ]_vars

\* a spend of 10.00 at the price 2000000000 was refused: the amount rounds
\* to zero
C16_Witness ==
    /\ pc = "sleep"
    /\ start_balance = 3333
    /\ loop_price = 2000000000
    /\ usd_balance = 3333
    /\ coin_balance = 0
    /\ current_market = NoMarket
    /\ trade_count = 0
    /\ last_event = NoEvent

(* C17: the BUY row of an entry carries the market, the price and the      *)
(* amount of the position, the cash balance and the equity after the       *)
(* entry, and a P/L of zero, whatever was traded before.                   *)
C17_BuyRowZeroPnl ==
    last_event.event = "BUY" =>
        /\ last_event.market = current_market
        /\ last_event.price = entry_price
        /\ last_event.amount = coin_balance
        /\ last_event.usd_balance = usd_balance
        /\ last_event.coin_balance = coin_balance
        /\ last_event.equity =
              QuantizeCents(current_equity_of(usd_balance, coin_balance,
                                              entry_price))
        /\ last_event.pnl = 0

(* C18: an exit ends its cycle (branch to sleep) and an entry is made only  *)
(* from the flat branch, so no cycle does both; the flat branch is reached  *)
(* only through update_daily_state run with no coins held, which leaves a   *)
(* peak >= the cash and the pause set when the cash is 5% or more below a   *)
(* positive peak; and an entry is never made while the cash is 5% or more   *)
(* below the positive peak of the day.                                      *)
C18_ExitCheckEntryOrder ==
    [][LET cash    == [c |-> usd_balance, f |-> 0]
           deep(k) == /\ EqGt(k, ZeroEquity)
                      /\ EqGe(Scaled(k, 100 - MAX_DAILY_DRAWDOWN),
                              Scaled(cash, 100))
       IN /\ ExitStep => (pc = "branch" /\ pc' = "sleep" /\ ~EntryStep)
          /\ EntryStep =>
                /\ pc = "decide" /\ pc' = "sleep"
                /\ coin_balance = 0
                /\ ~trading_paused_for_today
                /\ ~deep(equity_peak_today)
          /\ (pc' = "decide" /\ pc # "decide") =>
                /\ pc = "branch"
                /\ coin_balance = 0
                /\ UNCHANGED <<usd_balance, coin_balance>>
                /\ today_date' = clock
                /\ EqGe(equity_peak_today', cash)
                /\ deep(equity_peak_today') => trading_paused_for_today'
          /\ (pc = "decide" /\ pc' = "decide") =>
                UNCHANGED <<usd_balance, coin_balance, equity_peak_today,
                            today_date, trading_paused_for_today>>
      ]_vars

\* a second position was opened the day a stop loss took cash below the
\* peak of that day
C18_Witness ==
    /\ pc = "sleep"
    /\ last_event.event = "BUY"
    /\ trade_count >= 2
    /\ losing_streak >= 1
    /\ equity_peak_today.c > last_event.equity
    /\ ~trading_paused_for_today

(* C19: at every cycle boundary, also after cycles aborted by log_event     *)
(* raising in an entry or an exit, current_market is None exactly when      *)
(* entry_price is None and exactly when coin_balance = 0: a market is never *)
(* left marked as held with zero coins.                                     *)
C19_PositionRecordConsistent ==
    pc = "update" =>
        /\ (current_market = NoMarket) <=> (entry_price = NoPrice)
        /\ (current_market = NoMarket) <=> (coin_balance = 0)

(* C20: whenever a position is open and its latest price was fetched, a     *)
(* price at or beyond the take-profit or the stop-loss threshold sells the  *)
(* position in that cycle, whether or not the day is paused; and a          *)
(* DAILY_DRAWDOWN_LOCK row is recorded only by a risk update that finds     *)
(* the day not yet paused and pauses it, the pause lasting until the day    *)
(* rolls over: at most one such row per day.                                *)
C20_PauseBlocksOnlyEntries ==
    [][LET p       == loop_price'
           crossed ==
              \/ Thousand * p >= (Thousand + TAKE_PROFIT_PCT) * entry_price
              \/ Thousand * p <= (Thousand - STOP_LOSS_PCT) * entry_price
       IN /\ (pc = "branch" /\ InPosition /\ pc' # "branch"
                 /\ p # NoPrice /\ crossed) =>
                /\ coin_balance' = 0
                /\ usd_balance' > usd_balance
                /\ current_market' = NoMarket
                /\ entry_price' = NoPrice
                /\ last_event'.event = "SELL"
                /\ last_event'.amount = coin_balance
                /\ pc' = "sleep"
          /\ (last_event' # last_event
                 /\ last_event'.event = "DAILY_DRAWDOWN_LOCK") =>
                /\ RiskUpdateStep
                /\ ~trading_paused_for_today \/ today_date' # today_date
                /\ trading_paused_for_today'
          /\ (trading_paused_for_today /\ today_date' = today_date) =>
                trading_paused_for_today'
          /\ (~trading_paused_for_today /\ trading_paused_for_today') =>
                /\ RiskUpdateStep
                /\ last_event'.event = "DAILY_DRAWDOWN_LOCK"
      ]_vars

\* a position was sold at a threshold on a day that was already paused
C20_Witness ==
    /\ pc = "sleep"
    /\ trading_paused_for_today
    /\ last_event.event = "SELL"
    /\ last_event.price = loop_price
    /\ coin_balance = 0
    /\ current_market = NoMarket
    /\ trade_count >= 2

====
